---- MODULE Spec2Model ----
(***************************************************************************)
(* Model of two programs of the repository:                                *)
(*   scripts/count_reads_in_peaks.py   (count_reads, main)                 *)
(*   5_filter_high_expression_genes.py (module-level classification)       *)
(* Each program has its own specification; the variables of the program    *)
(* that is not running stay at their initial values.                       *)
(***************************************************************************)
EXTENDS FiniteSets, Integers, Sequences, TLC

(***************************************************************************)
(* Bounds of the model.                                                    *)
(***************************************************************************)
MaxRows == 2
MaxTargets == 2
MaxDea == 2
MaxGtfLines == 4

\* Values `samtools view -c -F 4` can print: no mapped read, a few, the
\* two sides of the low-depth boundary and the value of the spec's worked
\* example.
TotalReadsValues == {0, 4, 999999, 1000000, 5000000}

\* Raw overlap counts bedtools coverage can report for one interval.
RawCountValues == {0, 1, 10}

(***************************************************************************)
(* count_reads: values                                                     *)
(***************************************************************************)
Unset == -1
Absent == [exists |-> FALSE, rows |-> <<>>]
File(rows) == [exists |-> TRUE, rows |-> rows]

\* subprocess.run(..., check=True) raises CalledProcessError on a non-zero status
RaisesNever(status) == FALSE

Raises(status) == status # 0

TempFiles == {"genome_file", "sorted_peaks", "counts_tmp"}

\* The four external tools the run invokes, and the filters of the header
\* pipeline (samtools view -H | grep | sed | sed > genome_file).
Tools == {"samtools_count", "samtools_header", "bedtools_sort", "bedtools_coverage"}
PipeFilters == {"grep", "sed_sn", "sed_ln"}
Commands == Tools \cup PipeFilters

ExitStatus == {0, 1}

\* One line of the bedtools coverage -counts output for a 4-column interval.
CountRows ==
    { [chr |-> "chr1", start |-> 0, end |-> 100, gene |-> "p1", raw_count |-> c] :
        c \in RawCountValues }

RECURSIVE SeqsUpTo(_, _)
SeqsUpTo(S, n) ==
    IF n = 0 THEN { <<>> }
    ELSE LET shorter == SeqsUpTo(S, n - 1)
         IN  shorter \cup { Append(s, x) : s \in { t \in shorter : Len(t) = n - 1 }, x \in S }

CountTables == SeqsUpTo(CountRows, MaxRows)

(***************************************************************************)
(* float64 values as the normalization produces them: a finite value is an *)
(* exact fraction in lowest terms, a division by zero gives inf or nan.    *)
(***************************************************************************)
RECURSIVE GCD(_, _)
GCD(a, b) == IF b = 0 THEN a ELSE GCD(b, a % b)

Finite(n, d) == LET g == GCD(n, d) IN [cls |-> "finite", n |-> n \div g, d |-> d \div g]
Inf == [cls |-> "inf", n |-> 1, d |-> 0]
NaN == [cls |-> "nan", n |-> 0, d |-> 0]

\* Series * 1e6 (float64 multiplication by a finite constant)
FloatMul(x, k) == IF x.cls = "finite" THEN Finite(x.n * k, x.d) ELSE x

\* Series / total_reads: numpy true division, no exception on a zero divisor
FloatDiv(x, k) ==
    IF x.cls # "finite" THEN x
    ELSE IF k = 0 THEN (IF x.n = 0 THEN NaN ELSE Inf)
    ELSE Finite(x.n, x.d * k)

\* df['count'] = df['raw_count'] * 1e6 / total_reads, for one row
RpmBad(row, total) ==
    FloatDiv(FloatDiv(FloatMul(Finite(row.raw_count, 1), 1000000), total), row.end - row.start)

Rpm(row, total) ==
    FloatDiv(FloatMul(Finite(row.raw_count, 1), 1000000), total)

WithCount(row, total) ==
    [chr |-> row.chr, start |-> row.start, end |-> row.end, gene |-> row.gene,
     raw_count |-> row.raw_count, count |-> Rpm(row, total)]

NormalizeTable(tbl, total) == [i \in DOMAIN tbl |-> WithCount(tbl[i], total)]

\* zero_peaks = (df['raw_count'] == 0).sum()
ZeroPeaks(tbl) == Cardinality({ i \in DOMAIN tbl : tbl[i].raw_count = 0 })

\* zero_peaks > len(df) * 0.5
ZeroWarningAtLeast(tbl) == 2 * ZeroPeaks(tbl) >= Len(tbl)

ZeroWarning(tbl) == 2 * ZeroPeaks(tbl) > Len(tbl)

\* total_reads < 1000000
LowDepthThreshold == 1000000
DepthWarningAtMost(total) == total <= LowDepthThreshold

DepthWarning(total) == total < LowDepthThreshold

\* Exit status the shell reports for the header pipeline: that of its last
\* command (sh -c, no pipefail).
PipelineStatus(view, grep, sed1, sed2) == sed2

VARIABLES
    pc,             \* position of count_reads / main
    temp_dir,       \* the directory <output_dir>/tmp exists
    other_entries,  \* tmp holds entries this run did not create
    fs,             \* temporary files of this run that exist
    rc,             \* exit status of every command run so far
    total_reads,    \* int(check_output(...))
    counts_tmp,     \* content of the counts file
    df,             \* the DataFrame
    output_file,    \* content of the file at output_file
    exc,            \* exception in flight
    rmdir_attempted,
    warnings,       \* logger.warning calls made
    exit_code

cvars == <<pc, temp_dir, other_entries, fs, rc, total_reads, counts_tmp, df,
           output_file, exc, rmdir_attempted, warnings, exit_code>>

VARIABLES
    fpc,                \* position of the classification script
    dea_file,           \* ./Gene_lists/DEA_NSC.csv on disk
    targets1_file,      \* all_mecp2_targets_1.csv on disk
    targets2_file,      \* all_mecp2_targets_2.csv on disk
    gtf_file,           \* the annotation file on disk
    threshold,          \* args.threshold
    dea, targets1, targets2,
    all_mm10_genes, all_genes, all_targets,
    all_no_targets_mm10, all_no_targets,
    high_expression_genes, high_expression_no_targets,
    filtered_targets1, filtered_targets2,
    written,            \* output files written so far, by name
    ferr,               \* exception that ended the script
    he_runs             \* high_expression_genes of the runs made so far, by threshold

fvars == <<fpc, dea_file, targets1_file, targets2_file, gtf_file, threshold,
           dea, targets1, targets2, all_mm10_genes, all_genes, all_targets,
           all_no_targets_mm10, all_no_targets, high_expression_genes,
           high_expression_no_targets, filtered_targets1, filtered_targets2,
           written, ferr, he_runs>>

VARIABLES
    gtf_line,           \* get_all_genes_from_gtf: number of the next line of the file
    genes               \* get_all_genes_from_gtf: the local set genes

gvars == <<gtf_line, genes>>

Procs == {1, 2}

VARIABLES
    ppc,                \* two concurrent invocations: position of each
    tmp_exists,         \* the shared directory <output_dir>/tmp exists
    tmp_files,          \* temporary files in it, as <<invocation, file>>
    pexc,               \* exception in flight in each invocation
    pout                \* invocations that have written their output_file

pvars == <<ppc, tmp_exists, tmp_files, pexc, pout>>

xvars == <<gvars, pvars>>

vars == <<cvars, fvars, xvars>>

GtfIdle ==
    /\ gtf_line = 0
    /\ genes = {}

ConcIdle ==
    /\ ppc = [p \in Procs |-> "idle"]
    /\ tmp_exists = FALSE
    /\ tmp_files = {}
    /\ pexc = [p \in Procs |-> "none"]
    /\ pout = {}

Ran(t) == t \in DOMAIN rc

CountInit ==
    /\ pc = "makedirs"
    /\ temp_dir \in BOOLEAN
    /\ other_entries \in BOOLEAN
    /\ (other_entries => temp_dir)
    /\ fs = {}
    /\ rc = <<>>
    /\ total_reads = Unset
    /\ counts_tmp = Absent
    /\ df = Absent
    /\ output_file = Absent
    /\ exc = "none"
    /\ rmdir_attempted = FALSE
    /\ warnings = {}
    /\ exit_code = Unset

\* lines 15-18: os.makedirs(output_dir), os.makedirs(temp_dir)
MakeDirs ==
    /\ pc = "makedirs"
    /\ \/ /\ temp_dir' = TRUE
          /\ pc' = "total_reads"
          /\ exc' = exc
       \/ /\ ~temp_dir
          /\ temp_dir' = temp_dir
          /\ exc' = "OSError"
          /\ pc' = "raised"
    /\ UNCHANGED <<other_entries, fs, rc, total_reads, counts_tmp, df, output_file,
                   rmdir_attempted, warnings, exit_code>>
    /\ UNCHANGED <<fvars, xvars>>

\* lines 28-29: total_reads = int(subprocess.check_output(...)), outside the try
TotalReads ==
    /\ pc = "total_reads"
    /\ \E status \in ExitStatus :
          /\ rc' = ("samtools_count" :> status) @@ rc
          /\ IF status # 0
             THEN /\ exc' = "CalledProcessError"
                  /\ pc' = "raised"
                  /\ total_reads' = total_reads
             ELSE /\ \E n \in TotalReadsValues : total_reads' = n
                  /\ pc' = "genome"
                  /\ exc' = exc
    /\ UNCHANGED <<temp_dir, other_entries, fs, counts_tmp, df, output_file,
                   rmdir_attempted, warnings, exit_code>>
    /\ UNCHANGED <<fvars, xvars>>

\* lines 34-35: the header pipeline redirected into genome_file, check=True,
\* outside the try
Genome ==
    /\ pc = "genome"
    /\ \E view \in ExitStatus, grep \in ExitStatus, sed1 \in ExitStatus, sed2 \in ExitStatus :
          /\ rc' = ("samtools_header" :> view) @@ ("grep" :> grep) @@
                                ("sed_sn" :> sed1) @@ ("sed_ln" :> sed2) @@ rc
          /\ fs' = fs \cup {"genome_file"}
          /\ IF Raises(PipelineStatus(view, grep, sed1, sed2))
             THEN /\ exc' = "CalledProcessError"
                  /\ pc' = "raised"
             ELSE /\ exc' = exc
                  /\ pc' = "sort"
    /\ UNCHANGED <<temp_dir, other_entries, total_reads, counts_tmp, df, output_file,
                   rmdir_attempted, warnings, exit_code>>
    /\ UNCHANGED <<fvars, xvars>>

\* lines 39-40: bedtools sort redirected into sorted_peaks, check=True,
\* outside the try
Sort ==
    /\ pc = "sort"
    /\ \E status \in ExitStatus :
          /\ rc' = ("bedtools_sort" :> status) @@ rc
          /\ fs' = fs \cup {"sorted_peaks"}
          /\ IF Raises(status)
             THEN /\ exc' = "CalledProcessError"
                  /\ pc' = "raised"
             ELSE /\ exc' = exc
                  /\ pc' = "coverage"
    /\ UNCHANGED <<temp_dir, other_entries, total_reads, counts_tmp, df, output_file,
                   rmdir_attempted, warnings, exit_code>>
    /\ UNCHANGED <<fvars, xvars>>

\* lines 42-49: bedtools coverage redirected into counts_tmp, check=True,
\* first statement of the try
Coverage ==
    /\ pc = "coverage"
    /\ \E status \in ExitStatus :
          /\ rc' = ("bedtools_coverage" :> status) @@ rc
          /\ fs' = fs \cup {"counts_tmp"}
          /\ IF Raises(status)
             THEN /\ exc' = "CalledProcessError"
                  /\ pc' = "finally"
                  /\ counts_tmp' = File(<<>>)
             ELSE /\ exc' = exc
                  /\ pc' = "read_csv"
                  /\ \E tbl \in CountTables : counts_tmp' = File(tbl)
    /\ UNCHANGED <<temp_dir, other_entries, total_reads, df, output_file,
                   rmdir_attempted, warnings, exit_code>>
    /\ UNCHANGED <<fvars, xvars>>

\* lines 52-53: pd.read_csv(counts_tmp, header=None, names=[...])
ReadCsv ==
    /\ pc = "read_csv"
    /\ df' = counts_tmp
    /\ pc' = "normalize"
    /\ UNCHANGED <<temp_dir, other_entries, fs, rc, total_reads, counts_tmp, output_file,
                   exc, rmdir_attempted, warnings, exit_code>>
    /\ UNCHANGED <<fvars, xvars>>

\* line 56: df['count'] = df['raw_count'] * 1e6 / total_reads
Normalize ==
    /\ pc = "normalize"
    /\ df' = File(NormalizeTable(df.rows, total_reads))
    /\ pc' = "to_csv"
    /\ UNCHANGED <<temp_dir, other_entries, fs, rc, total_reads, counts_tmp, output_file,
                   exc, rmdir_attempted, warnings, exit_code>>
    /\ UNCHANGED <<fvars, xvars>>

\* line 59: df.to_csv(output_file, sep='\t', index=False)
ToCsv ==
    /\ pc = "to_csv"
    /\ output_file' = df
    /\ pc' = "qc"
    /\ UNCHANGED <<temp_dir, other_entries, fs, rc, total_reads, counts_tmp, df,
                   exc, rmdir_attempted, warnings, exit_code>>
    /\ UNCHANGED <<fvars, xvars>>

\* lines 65-71: the two quality-control warnings
QualityControlFatal ==
    /\ pc = "qc"
    /\ warnings' = (IF ZeroWarning(df.rows) THEN {"zero_peaks"} ELSE {})
                   \cup (IF DepthWarning(total_reads) THEN {"low_reads"} ELSE {})
    /\ exc' = (IF warnings' # {} THEN "ValueError" ELSE exc)
    /\ pc' = "finally"
    /\ UNCHANGED <<temp_dir, other_entries, fs, rc, total_reads, counts_tmp, df,
                   output_file, rmdir_attempted, exit_code>>
    /\ UNCHANGED <<fvars, xvars>>

QualityControl ==
    /\ pc = "qc"
    /\ warnings' = (IF ZeroWarning(df.rows) THEN {"zero_peaks"} ELSE {})
                   \cup (IF DepthWarning(total_reads) THEN {"low_reads"} ELSE {})
    /\ pc' = "finally"
    /\ UNCHANGED <<temp_dir, other_entries, fs, rc, total_reads, counts_tmp, df,
                   output_file, exc, rmdir_attempted, exit_code>>
    /\ UNCHANGED <<fvars, xvars>>

\* lines 73-82: remove the temporary files, try os.rmdir(temp_dir), then
\* return or re-raise
Finally ==
    /\ pc = "finally"
    /\ fs' = fs \ TempFiles
    /\ counts_tmp' = Absent
    /\ rmdir_attempted' = TRUE
    /\ temp_dir' = (IF other_entries THEN temp_dir ELSE FALSE)
    /\ pc' = (IF exc = "none" THEN "returned" ELSE "raised")
    /\ UNCHANGED <<other_entries, rc, total_reads, df, output_file, exc, warnings, exit_code>>
    /\ UNCHANGED <<fvars, xvars>>

\* lines 99-103: main logs the exception and exits 1, or falls off the end
Main ==
    /\ pc \in {"returned", "raised"}
    /\ exit_code' = (IF pc = "raised" THEN 1 ELSE 0)
    /\ pc' = "exit"
    /\ UNCHANGED <<temp_dir, other_entries, fs, rc, total_reads, counts_tmp, df,
                   output_file, exc, rmdir_attempted, warnings>>
    /\ UNCHANGED <<fvars, xvars>>

CountNext ==
    \/ MakeDirs
    \/ TotalReads
    \/ Genome
    \/ Sort
    \/ Coverage
    \/ ReadCsv
    \/ Normalize
    \/ ToCsv
    \/ QualityControl
    \/ Finally
    \/ Main

(***************************************************************************)
(* 5_filter_high_expression_genes.py: inputs                               *)
(***************************************************************************)
Genes == {"A", "B", "X"}
DeaGenes == {"A", "B"}
BaseMeanValues == {100, 150}
ThresholdValues == {50, 100, 150}

\* --threshold, default 100.0
DefaultThreshold == 100

Range(seq) == { seq[i] : i \in DOMAIN seq }

DeaFile(cols, rows) == [exists |-> TRUE, columns |-> cols, rows |-> rows]
DeaRows == { [gene |-> g, baseMean |-> m] : g \in DeaGenes, m \in BaseMeanValues }
DeaTables == SeqsUpTo(DeaRows, MaxDea)
CompleteDeaFiles == { DeaFile({"gene", "baseMean"}, t) : t \in DeaTables }
IncompleteDeaFiles ==
    { DeaFile(cols, << [gene |-> "A", baseMean |-> 150] >>) : cols \in {{"gene"}, {"baseMean"}} }
DeaFiles == {Absent} \cup CompleteDeaFiles \cup IncompleteDeaFiles

TargetFiles == {Absent} \cup { File(l) : l \in SeqsUpTo(Genes, MaxTargets) }

\* Annotation lines: a comment, or the feature type (fields[2]) and the
\* ';'-separated segments of the attribute column (fields[8]).
Pair(k, v) == [kind |-> "pair", key |-> k, value |-> v]
Malformed == [kind |-> "malformed", key |-> "", value |-> ""]
Blank == [kind |-> "blank", key |-> "", value |-> ""]
CommentLine == [comment |-> TRUE, feature |-> "", attrs |-> <<>>]
FeatureLine(feature, type, name) ==
    [comment |-> FALSE, feature |-> feature,
     attrs |-> << Pair("gene_id", "id"), Pair("gene_type", type), Pair("gene_name", name), Blank >>]

GtfSample ==
    << CommentLine,
       FeatureLine("gene", "protein_coding", "A"),
       FeatureLine("gene", "lincRNA", "B"),
       FeatureLine("transcript", "protein_coding", "B"),
       [comment |-> FALSE, feature |-> "gene",
        attrs |-> << Malformed, Pair("gene_type", "protein_coding"), Pair("gene_name", "X"), Blank >>] >>

GtfFiles == {Absent, File(<<>>), File(GtfSample)}

(***************************************************************************)
(* 5_filter_high_expression_genes.py: functions                            *)
(***************************************************************************)
valid_gene_types_all == {"protein_coding", "lincRNA"}

valid_gene_types == {"protein_coding"}

\* lines 63-71: attr_dict of the first n segments; a segment without the
\* separator raises ValueError and is skipped, a later key overwrites
RECURSIVE AttrDict(_, _)
AttrDict(attrs, n) ==
    IF n = 0 THEN <<>>
    ELSE LET d == AttrDict(attrs, n - 1)
             a == attrs[n]
         IN  IF a.kind = "pair" THEN (a.key :> a.value) @@ d ELSE d

\* attr_dict.get(key, '')
AttrGet(d, key) == IF key \in DOMAIN d THEN d[key] ELSE ""

get_all_genes_from_gtf(lines) ==
    { AttrGet(AttrDict(lines[i].attrs, Len(lines[i].attrs)), "gene_name") :
        i \in { j \in DOMAIN lines :
                  /\ ~lines[j].comment
                  /\ lines[j].feature = "gene"
                  /\ LET d == AttrDict(lines[j].attrs, Len(lines[j].attrs))
                     IN  /\ AttrGet(d, "gene_type") \in valid_gene_types
                         /\ AttrGet(d, "gene_name") # "" } }

\* line 94 (line 93 is the disabled union)
AllTargetsUnion(t1, t2) == Range(t1) \cup Range(t2)

AllTargets(t1, t2) == Range(t2)

\* lines 97, 100, 120: universe - all_targets
NoTargetsSymDiff(universe, targets) == (universe \ targets) \cup (targets \ universe)

NoTargets(universe, targets) == universe \ targets

\* line 117: set(dea[dea['baseMean'] > args.threshold]['gene'])
HighExpressionGenesBelow(rows, t) ==
    { rows[i].gene : i \in { j \in DOMAIN rows : rows[j].baseMean < t } }

HighExpressionGenesAtLeast(rows, t) ==
    { rows[i].gene : i \in { j \in DOMAIN rows : rows[j].baseMean >= t } }

HighExpressionGenes(rows, t) ==
    { rows[i].gene : i \in { j \in DOMAIN rows : rows[j].baseMean > t } }

\* lines 123-124: targets[targets['Gene'].isin(high_expression_genes)]
RECURSIVE IsinUnique(_, _)
IsinUnique(list, S) ==
    IF list = <<>> THEN <<>>
    ELSE LET front == IsinUnique(SubSeq(list, 1, Len(list) - 1), S)
             g == list[Len(list)]
         IN  IF g \in S /\ g \notin Range(front) THEN Append(front, g) ELSE front

RECURSIVE Isin(_, _)
Isin(list, S) ==
    IF list = <<>> THEN <<>>
    ELSE LET front == Isin(SubSeq(list, 1, Len(list) - 1), S)
             g == list[Len(list)]
         IN  IF g \in S THEN Append(front, g) ELSE front

(***************************************************************************)
(* 5_filter_high_expression_genes.py: the script                           *)
(***************************************************************************)
FilterComputedIdle ==
    /\ dea = Absent
    /\ targets1 = Absent
    /\ targets2 = Absent
    /\ all_mm10_genes = {}
    /\ all_genes = {}
    /\ all_targets = {}
    /\ all_no_targets_mm10 = {}
    /\ all_no_targets = {}
    /\ high_expression_genes = {}
    /\ high_expression_no_targets = {}
    /\ filtered_targets1 = <<>>
    /\ filtered_targets2 = <<>>
    /\ written = <<>>
    /\ ferr = "none"
    /\ he_runs = <<>>

FilterInit ==
    /\ fpc = "read_dea"
    /\ dea_file \in DeaFiles
    /\ targets1_file \in TargetFiles
    /\ targets2_file \in TargetFiles
    /\ gtf_file \in GtfFiles
    /\ threshold = DefaultThreshold
    /\ FilterComputedIdle

FilterIdle ==
    /\ fpc = "idle"
    /\ dea_file = Absent
    /\ targets1_file = Absent
    /\ targets2_file = Absent
    /\ gtf_file = Absent
    /\ threshold = DefaultThreshold
    /\ FilterComputedIdle

CountIdle ==
    /\ pc = "idle"
    /\ temp_dir = FALSE
    /\ other_entries = FALSE
    /\ fs = {}
    /\ rc = <<>>
    /\ total_reads = Unset
    /\ counts_tmp = Absent
    /\ df = Absent
    /\ output_file = Absent
    /\ exc = "none"
    /\ rmdir_attempted = FALSE
    /\ warnings = {}
    /\ exit_code = Unset

\* line 82: dea = pd.read_csv(DEA_NSC.csv)
ReadDea ==
    /\ fpc = "read_dea"
    /\ IF dea_file.exists
       THEN /\ dea' = dea_file
            /\ fpc' = "read_targets1"
            /\ ferr' = ferr
       ELSE /\ dea' = dea
            /\ fpc' = "failed"
            /\ ferr' = "FileNotFoundError"
    /\ UNCHANGED <<dea_file, targets1_file, targets2_file, gtf_file, threshold,
                   targets1, targets2, all_mm10_genes, all_genes, all_targets,
                   all_no_targets_mm10, all_no_targets, high_expression_genes,
                   high_expression_no_targets, filtered_targets1, filtered_targets2,
                   written, he_runs>>
    /\ UNCHANGED <<cvars, xvars>>

\* line 83: targets1 = pd.read_csv(..., header=None, names=['Gene'])
ReadTargets1 ==
    /\ fpc = "read_targets1"
    /\ IF targets1_file.exists
       THEN /\ targets1' = targets1_file
            /\ fpc' = "read_targets2"
            /\ ferr' = ferr
       ELSE /\ targets1' = targets1
            /\ fpc' = "failed"
            /\ ferr' = "FileNotFoundError"
    /\ UNCHANGED <<dea_file, targets1_file, targets2_file, gtf_file, threshold,
                   dea, targets2, all_mm10_genes, all_genes, all_targets,
                   all_no_targets_mm10, all_no_targets, high_expression_genes,
                   high_expression_no_targets, filtered_targets1, filtered_targets2,
                   written, he_runs>>
    /\ UNCHANGED <<cvars, xvars>>

\* line 84: targets2 = pd.read_csv(..., header=None, names=['Gene'])
ReadTargets2Strict ==
    /\ fpc = "read_targets2"
    /\ IF targets2_file.exists /\ targets2_file.rows # <<>>
       THEN /\ targets2' = targets2_file
            /\ fpc' = "read_gtf"
            /\ ferr' = ferr
       ELSE /\ targets2' = targets2
            /\ fpc' = "failed"
            /\ ferr' = IF targets2_file.exists THEN "EmptyDataError" ELSE "FileNotFoundError"
    /\ UNCHANGED <<dea_file, targets1_file, targets2_file, gtf_file, threshold,
                   dea, targets1, all_mm10_genes, all_genes, all_targets,
                   all_no_targets_mm10, all_no_targets, high_expression_genes,
                   high_expression_no_targets, filtered_targets1, filtered_targets2,
                   written, he_runs>>
    /\ UNCHANGED <<cvars, xvars>>

ReadTargets2 ==
    /\ fpc = "read_targets2"
    /\ IF targets2_file.exists
       THEN /\ targets2' = targets2_file
            /\ fpc' = "read_gtf"
            /\ ferr' = ferr
       ELSE /\ targets2' = targets2
            /\ fpc' = "failed"
            /\ ferr' = "FileNotFoundError"
    /\ UNCHANGED <<dea_file, targets1_file, targets2_file, gtf_file, threshold,
                   dea, targets1, all_mm10_genes, all_genes, all_targets,
                   all_no_targets_mm10, all_no_targets, high_expression_genes,
                   high_expression_no_targets, filtered_targets1, filtered_targets2,
                   written, he_runs>>
    /\ UNCHANGED <<cvars, xvars>>

\* line 87: all_mm10_genes = get_all_genes_from_gtf(GTF_PATH)
ReadGtf ==
    /\ fpc = "read_gtf"
    /\ IF gtf_file.exists
       THEN /\ all_mm10_genes' = get_all_genes_from_gtf(gtf_file.rows)
            /\ fpc' = "sets"
            /\ ferr' = ferr
       ELSE /\ all_mm10_genes' = all_mm10_genes
            /\ fpc' = "failed"
            /\ ferr' = "FileNotFoundError"
    /\ UNCHANGED <<dea_file, targets1_file, targets2_file, gtf_file, threshold,
                   dea, targets1, targets2, all_genes, all_targets,
                   all_no_targets_mm10, all_no_targets, high_expression_genes,
                   high_expression_no_targets, filtered_targets1, filtered_targets2,
                   written, he_runs>>
    /\ UNCHANGED <<cvars, xvars>>

\* lines 90-100: all_genes, all_targets, all_no_targets_mm10, all_no_targets;
\* dea['gene'] raises KeyError when the column is missing
ComputeSets ==
    /\ fpc = "sets"
    /\ IF "gene" \in dea.columns
       THEN /\ all_genes' = { dea.rows[i].gene : i \in DOMAIN dea.rows }
            /\ all_targets' = AllTargets(targets1.rows, targets2.rows)
            /\ all_no_targets_mm10' = NoTargets(all_mm10_genes, all_targets')
            /\ all_no_targets' = NoTargets(all_genes', all_targets')
            /\ fpc' = "save_unfiltered"
            /\ ferr' = ferr
       ELSE /\ UNCHANGED <<all_genes, all_targets, all_no_targets_mm10, all_no_targets>>
            /\ fpc' = "failed"
            /\ ferr' = "KeyError"
    /\ UNCHANGED <<dea_file, targets1_file, targets2_file, gtf_file, threshold,
                   dea, targets1, targets2, all_mm10_genes, high_expression_genes,
                   high_expression_no_targets, filtered_targets1, filtered_targets2,
                   written, he_runs>>
    /\ UNCHANGED <<cvars, xvars>>

\* lines 103-113: the five unfiltered lists are written
SaveUnfiltered ==
    /\ fpc = "save_unfiltered"
    /\ written' = ("all_targets1.csv" :> targets1.rows) @@
                  ("all_targets2.csv" :> targets2.rows) @@
                  ("no_targets_final.csv" :> all_no_targets) @@
                  ("all_no_targets_mm10.csv" :> all_no_targets_mm10) @@
                  ("all_targets_final.csv" :> all_targets) @@ written
    /\ fpc' = "filter"
    /\ UNCHANGED <<dea_file, targets1_file, targets2_file, gtf_file, threshold,
                   dea, targets1, targets2, all_mm10_genes, all_genes, all_targets,
                   all_no_targets_mm10, all_no_targets, high_expression_genes,
                   high_expression_no_targets, filtered_targets1, filtered_targets2,
                   ferr, he_runs>>
    /\ UNCHANGED <<cvars, xvars>>

\* lines 117-124: high_expression_genes, high_expression_no_targets and the
\* two filtered lists; dea['baseMean'] raises KeyError when the column is
\* missing
FilterHighExpression ==
    /\ fpc = "filter"
    /\ IF "baseMean" \in dea.columns
       THEN /\ high_expression_genes' = HighExpressionGenes(dea.rows, threshold)
            /\ high_expression_no_targets' = NoTargets(high_expression_genes', all_targets)
            /\ filtered_targets1' = Isin(targets1.rows, high_expression_genes')
            /\ filtered_targets2' = Isin(targets2.rows, high_expression_genes')
            /\ fpc' = "save_filtered"
            /\ ferr' = ferr
       ELSE /\ UNCHANGED <<high_expression_genes, high_expression_no_targets,
                           filtered_targets1, filtered_targets2>>
            /\ fpc' = "failed"
            /\ ferr' = "KeyError"
    /\ UNCHANGED <<dea_file, targets1_file, targets2_file, gtf_file, threshold,
                   dea, targets1, targets2, all_mm10_genes, all_genes, all_targets,
                   all_no_targets_mm10, all_no_targets, written, he_runs>>
    /\ UNCHANGED <<cvars, xvars>>

\* lines 127-130: the three filtered lists are written
SaveFiltered ==
    /\ fpc = "save_filtered"
    /\ written' = ("high_expression_targets1" :> filtered_targets1) @@
                  ("high_expression_targets2" :> filtered_targets2) @@
                  ("high_expression_no_targets" :> high_expression_no_targets) @@ written
    /\ fpc' = "stats"
    /\ UNCHANGED <<dea_file, targets1_file, targets2_file, gtf_file, threshold,
                   dea, targets1, targets2, all_mm10_genes, all_genes, all_targets,
                   all_no_targets_mm10, all_no_targets, high_expression_genes,
                   high_expression_no_targets, filtered_targets1, filtered_targets2,
                   ferr, he_runs>>
    /\ UNCHANGED <<cvars, xvars>>

\* lines 133-146: the statistics are printed and the script ends
PrintStatistics ==
    /\ fpc = "stats"
    /\ fpc' = "done"
    /\ UNCHANGED <<dea_file, targets1_file, targets2_file, gtf_file, threshold,
                   dea, targets1, targets2, all_mm10_genes, all_genes, all_targets,
                   all_no_targets_mm10, all_no_targets, high_expression_genes,
                   high_expression_no_targets, filtered_targets1, filtered_targets2,
                   written, ferr, he_runs>>
    /\ UNCHANGED <<cvars, xvars>>

FilterNext ==
    \/ ReadDea
    \/ ReadTargets1
    \/ ReadTargets2
    \/ ReadGtf
    \/ ComputeSets
    \/ SaveUnfiltered
    \/ FilterHighExpression
    \/ SaveFiltered
    \/ PrintStatistics

(***************************************************************************)
(* Runs of line 117 on one DEA table with different --threshold values     *)
(***************************************************************************)
ThresholdInit ==
    /\ CountIdle
    /\ GtfIdle
    /\ ConcIdle
    /\ fpc = "filter"
    /\ dea_file \in CompleteDeaFiles
    /\ targets1_file = Absent
    /\ targets2_file = Absent
    /\ gtf_file = Absent
    /\ threshold = DefaultThreshold
    /\ dea = dea_file
    /\ targets1 = Absent
    /\ targets2 = Absent
    /\ all_mm10_genes = {}
    /\ all_genes = {}
    /\ all_targets = {}
    /\ all_no_targets_mm10 = {}
    /\ all_no_targets = {}
    /\ high_expression_genes = {}
    /\ high_expression_no_targets = {}
    /\ filtered_targets1 = <<>>
    /\ filtered_targets2 = <<>>
    /\ written = <<>>
    /\ ferr = "none"
    /\ he_runs = <<>>

RunWithThreshold ==
    /\ fpc = "filter"
    /\ \E t \in ThresholdValues \ DOMAIN he_runs :
          /\ threshold' = t
          /\ high_expression_genes' = HighExpressionGenes(dea.rows, t)
          /\ he_runs' = (t :> high_expression_genes') @@ he_runs
    /\ UNCHANGED <<fpc, dea_file, targets1_file, targets2_file, gtf_file,
                   dea, targets1, targets2, all_mm10_genes, all_genes, all_targets,
                   all_no_targets_mm10, all_no_targets,
                   high_expression_no_targets, filtered_targets1, filtered_targets2,
                   written, ferr>>
    /\ UNCHANGED <<cvars, xvars>>

ThresholdNext == RunWithThreshold

(***************************************************************************)
(* The script on the tables made of the rows of the worked example         *)
(* (A,50), (B,150), (C,300) and of a row at the threshold, (X,100)         *)
(***************************************************************************)
ScenarioRows ==
    { [gene |-> "A", baseMean |-> 50], [gene |-> "B", baseMean |-> 150],
      [gene |-> "C", baseMean |-> 300], [gene |-> "X", baseMean |-> 100] }

ScenarioDea ==
    << [gene |-> "A", baseMean |-> 50], [gene |-> "B", baseMean |-> 150],
       [gene |-> "C", baseMean |-> 300] >>

ScenarioDeaFiles ==
    { DeaFile({"gene", "baseMean"}, t) : t \in SeqsUpTo(ScenarioRows, Cardinality(ScenarioRows)) }

ScenarioTargetFiles == { File(l) : l \in SeqsUpTo({"B", "X"}, MaxTargets) }

InitScenario ==
    /\ CountIdle
    /\ GtfIdle
    /\ ConcIdle
    /\ fpc = "read_dea"
    /\ dea_file \in ScenarioDeaFiles
    /\ targets1_file \in ScenarioTargetFiles
    /\ targets2_file \in ScenarioTargetFiles
    /\ gtf_file = File(GtfSample)
    /\ threshold = DefaultThreshold
    /\ FilterComputedIdle

(***************************************************************************)
(* get_all_genes_from_gtf, line by line, on annotation files made of the   *)
(* lines below                                                             *)
(***************************************************************************)
MalformedLine ==
    [comment |-> FALSE, feature |-> "gene",
     attrs |-> << Malformed, Pair("gene_type", "protein_coding"), Pair("gene_name", "X"), Blank >>]

UntypedLine ==
    [comment |-> FALSE, feature |-> "gene", attrs |-> << Pair("gene_name", "F"), Blank >>]

GtfLines ==
    { CommentLine,
      FeatureLine("gene", "protein_coding", "A"),
      FeatureLine("gene", "protein_coding", "B"),
      FeatureLine("gene", "protein_coding", "C"),
      FeatureLine("gene", "lincRNA", "D"),
      FeatureLine("transcript", "protein_coding", "E"),
      FeatureLine("gene", "protein_coding", ""),
      MalformedLine,
      UntypedLine }

GtfInputFiles == {Absent} \cup { File(l) : l \in SeqsUpTo(GtfLines, MaxGtfLines) }

InitGtf ==
    /\ CountIdle
    /\ ConcIdle
    /\ GtfIdle
    /\ fpc = "gtf_open"
    /\ dea_file = Absent
    /\ targets1_file = Absent
    /\ targets2_file = Absent
    /\ gtf_file \in GtfInputFiles
    /\ threshold = DefaultThreshold
    /\ FilterComputedIdle

\* lines 47-56: genes = set(), gzip.open(gtf_path, 'rt')
GtfOpen ==
    /\ fpc = "gtf_open"
    /\ IF gtf_file.exists
       THEN /\ genes' = {}
            /\ gtf_line' = 1
            /\ fpc' = "gtf_loop"
            /\ ferr' = ferr
       ELSE /\ UNCHANGED gvars
            /\ fpc' = "failed"
            /\ ferr' = "FileNotFoundError"
    /\ UNCHANGED <<dea_file, targets1_file, targets2_file, gtf_file, threshold,
                   dea, targets1, targets2, all_mm10_genes, all_genes, all_targets,
                   all_no_targets_mm10, all_no_targets, high_expression_genes,
                   high_expression_no_targets, filtered_targets1, filtered_targets2,
                   written, he_runs>>
    /\ UNCHANGED <<cvars, pvars>>

\* lines 57-78: one iteration of `for line in f`
GtfLine ==
    /\ fpc = "gtf_loop"
    /\ gtf_line <= Len(gtf_file.rows)
    /\ genes' = genes \cup get_all_genes_from_gtf(<< gtf_file.rows[gtf_line] >>)
    /\ gtf_line' = gtf_line + 1
    /\ UNCHANGED <<cvars, fvars, pvars>>

\* lines 79 and 87: return genes, bound to all_mm10_genes
GtfReturn ==
    /\ fpc = "gtf_loop"
    /\ gtf_line > Len(gtf_file.rows)
    /\ all_mm10_genes' = genes
    /\ fpc' = "gtf_done"
    /\ UNCHANGED <<dea_file, targets1_file, targets2_file, gtf_file, threshold,
                   dea, targets1, targets2, all_genes, all_targets,
                   all_no_targets_mm10, all_no_targets, high_expression_genes,
                   high_expression_no_targets, filtered_targets1, filtered_targets2,
                   written, ferr, he_runs>>
    /\ UNCHANGED <<cvars, gvars, pvars>>

GtfNext ==
    \/ GtfOpen
    \/ GtfLine
    \/ GtfReturn

(***************************************************************************)
(* Two concurrent invocations of count_reads whose output files have       *)
(* different names in the same output directory: temp_dir (line 16) is the *)
(* same path for both, the temporary files (lines 21-24) differ by the     *)
(* basename of output_file. The external tools succeed whenever the files  *)
(* they read exist and the shell can create the file they write.           *)
(***************************************************************************)
InitConc ==
    /\ CountIdle
    /\ FilterIdle
    /\ GtfIdle
    /\ ppc = [p \in Procs |-> "makedirs"]
    /\ tmp_exists \in BOOLEAN
    /\ tmp_files = {}
    /\ pexc = [p \in Procs |-> "none"]
    /\ pout = {}

\* lines 15-18: os.makedirs(temp_dir, exist_ok=True)
RunMakeDirs(p) ==
    /\ ppc[p] = "makedirs"
    /\ tmp_exists' = TRUE
    /\ ppc' = [ppc EXCEPT ![p] = "total_reads"]
    /\ UNCHANGED <<tmp_files, pexc, pout>>
    /\ UNCHANGED <<cvars, fvars, gvars>>

\* lines 28-29: samtools view -c, touches no temporary file
RunTotalReads(p) ==
    /\ ppc[p] = "total_reads"
    /\ ppc' = [ppc EXCEPT ![p] = "genome"]
    /\ UNCHANGED <<tmp_exists, tmp_files, pexc, pout>>
    /\ UNCHANGED <<cvars, fvars, gvars>>

\* lines 34-35: `... > genome_file`, check=True, outside the try; the shell
\* cannot create the file when the directory is gone
RunGenome(p) ==
    /\ ppc[p] = "genome"
    /\ IF tmp_exists
       THEN /\ tmp_files' = tmp_files \cup {<<p, "genome_file">>}
            /\ ppc' = [ppc EXCEPT ![p] = "sort"]
            /\ pexc' = pexc
       ELSE /\ tmp_files' = tmp_files
            /\ ppc' = [ppc EXCEPT ![p] = "raised"]
            /\ pexc' = [pexc EXCEPT ![p] = "CalledProcessError"]
    /\ UNCHANGED <<tmp_exists, pout>>
    /\ UNCHANGED <<cvars, fvars, gvars>>

\* lines 39-40: `bedtools sort -g genome_file ... > sorted_peaks`, check=True,
\* outside the try
RunSort(p) ==
    /\ ppc[p] = "sort"
    /\ tmp_files' = IF tmp_exists THEN tmp_files \cup {<<p, "sorted_peaks">>} ELSE tmp_files
    /\ IF tmp_exists /\ <<p, "genome_file">> \in tmp_files
       THEN /\ ppc' = [ppc EXCEPT ![p] = "coverage"]
            /\ pexc' = pexc
       ELSE /\ ppc' = [ppc EXCEPT ![p] = "raised"]
            /\ pexc' = [pexc EXCEPT ![p] = "CalledProcessError"]
    /\ UNCHANGED <<tmp_exists, pout>>
    /\ UNCHANGED <<cvars, fvars, gvars>>

\* lines 42-49: `bedtools coverage -a sorted_peaks ... -g genome_file > counts_tmp`,
\* check=True, inside the try
RunCoverage(p) ==
    /\ ppc[p] = "coverage"
    /\ tmp_files' = IF tmp_exists THEN tmp_files \cup {<<p, "counts_tmp">>} ELSE tmp_files
    /\ IF tmp_exists /\ {<<p, "genome_file">>, <<p, "sorted_peaks">>} \subseteq tmp_files
       THEN /\ ppc' = [ppc EXCEPT ![p] = "read_csv"]
            /\ pexc' = pexc
       ELSE /\ ppc' = [ppc EXCEPT ![p] = "finally"]
            /\ pexc' = [pexc EXCEPT ![p] = "CalledProcessError"]
    /\ UNCHANGED <<tmp_exists, pout>>
    /\ UNCHANGED <<cvars, fvars, gvars>>

\* lines 52-53: pd.read_csv(counts_tmp, ...)
RunReadCsv(p) ==
    /\ ppc[p] = "read_csv"
    /\ IF <<p, "counts_tmp">> \in tmp_files
       THEN /\ ppc' = [ppc EXCEPT ![p] = "normalize"]
            /\ pexc' = pexc
       ELSE /\ ppc' = [ppc EXCEPT ![p] = "finally"]
            /\ pexc' = [pexc EXCEPT ![p] = "FileNotFoundError"]
    /\ UNCHANGED <<tmp_exists, tmp_files, pout>>
    /\ UNCHANGED <<cvars, fvars, gvars>>

\* line 56: the normalization, in memory
RunNormalize(p) ==
    /\ ppc[p] = "normalize"
    /\ ppc' = [ppc EXCEPT ![p] = "to_csv"]
    /\ UNCHANGED <<tmp_exists, tmp_files, pexc, pout>>
    /\ UNCHANGED <<cvars, fvars, gvars>>

\* line 59: df.to_csv(output_file)
RunToCsv(p) ==
    /\ ppc[p] = "to_csv"
    /\ pout' = pout \cup {p}
    /\ ppc' = [ppc EXCEPT ![p] = "qc"]
    /\ UNCHANGED <<tmp_exists, tmp_files, pexc>>
    /\ UNCHANGED <<cvars, fvars, gvars>>

\* lines 61-71: logging and quality control, in memory
RunQualityControl(p) ==
    /\ ppc[p] = "qc"
    /\ ppc' = [ppc EXCEPT ![p] = "finally"]
    /\ UNCHANGED <<tmp_exists, tmp_files, pexc, pout>>
    /\ UNCHANGED <<cvars, fvars, gvars>>

\* lines 73-77: remove this invocation's temporary files
RunFinally(p) ==
    /\ ppc[p] = "finally"
    /\ tmp_files' = tmp_files \ { <<p, f>> : f \in TempFiles }
    /\ ppc' = [ppc EXCEPT ![p] = "rmdir"]
    /\ UNCHANGED <<tmp_exists, pexc, pout>>
    /\ UNCHANGED <<cvars, fvars, gvars>>

\* lines 78-82: os.rmdir(temp_dir), which succeeds only on an existing empty
\* directory and whose failure is swallowed; then return or re-raise
RunRmdir(p) ==
    /\ ppc[p] = "rmdir"
    /\ tmp_exists' = (tmp_exists /\ tmp_files # {})
    /\ ppc' = [ppc EXCEPT ![p] = IF pexc[p] = "none" THEN "returned" ELSE "raised"]
    /\ UNCHANGED <<tmp_files, pexc, pout>>
    /\ UNCHANGED <<cvars, fvars, gvars>>

ConcNext ==
    \E p \in Procs :
        \/ RunMakeDirs(p)
        \/ RunTotalReads(p)
        \/ RunGenome(p)
        \/ RunSort(p)
        \/ RunCoverage(p)
        \/ RunReadCsv(p)
        \/ RunNormalize(p)
        \/ RunToCsv(p)
        \/ RunQualityControl(p)
        \/ RunFinally(p)
        \/ RunRmdir(p)

(***************************************************************************)
(* Specifications                                                          *)
(***************************************************************************)
Init == CountInit /\ FilterIdle /\ GtfIdle /\ ConcIdle

Spec == Init /\ [][CountNext]_vars

InitFilter == FilterInit /\ CountIdle /\ GtfIdle /\ ConcIdle

SpecFilter == InitFilter /\ [][FilterNext]_vars

SpecThreshold == ThresholdInit /\ [][ThresholdNext]_vars

SpecScenario == InitScenario /\ [][FilterNext]_vars

SpecGtf == InitGtf /\ [][GtfNext]_vars

SpecConc == InitConc /\ [][ConcNext]_vars

(***************************************************************************)
(* Properties of count_reads                                               *)
(***************************************************************************)
Ended == pc \in {"returned", "raised", "exit"}

\* Exit status of the four subprocess calls as Python sees them.
StepOrder == <<"samtools_count", "samtools_header", "bedtools_sort", "bedtools_coverage">>

StepsSucceeded ==
    /\ \A t \in Tools \cup PipeFilters : Ran(t)
    /\ rc["samtools_count"] = 0
    /\ rc["sed_ln"] = 0
    /\ rc["bedtools_sort"] = 0
    /\ rc["bedtools_coverage"] = 0

\* C1: whenever count_reads has returned or raised after creating its
\* working directory, none of the temporary files it created exists any
\* more and the removal of the temporary directory has been attempted.
C1_CleanupOnEveryExit ==
    (Ended /\ exc # "OSError") => (fs \cap TempFiles = {} /\ rmdir_attempted)

\* C2: once one of the four external tools has returned a non-zero status,
\* no later tool is run, nothing is normalized or written, and the run does
\* not end successfully.
C2_ToolFailureAborts ==
    \A i \in 1..Len(StepOrder) :
        (Ran(StepOrder[i]) /\ rc[StepOrder[i]] # 0) =>
            /\ \A j \in (i + 1)..Len(StepOrder) : ~Ran(StepOrder[j])
            /\ ~df.exists
            /\ ~output_file.exists
            /\ pc # "returned"
            /\ exit_code # 0

\* C3: a run that fails with a tool error has not written output_file, and
\* output_file is written only after the four subprocess calls returned
\* status 0.
C3_NoOutputOnToolFailure ==
    /\ (exc = "CalledProcessError" => ~output_file.exists)
    /\ (output_file.exists => StepsSucceeded)

C3_Witness ==
    /\ pc = "exit"
    /\ exit_code = 1
    /\ exc = "CalledProcessError"
    /\ Ran("bedtools_coverage")
    /\ rc["bedtools_coverage"] = 1
    /\ ~output_file.exists

\* C4: with total_reads = 0 the run never returns successfully, never exits
\* with status 0 and never writes a count that is inf or nan.
C4_ZeroTotalIsFatal ==
    (total_reads = 0) =>
        /\ pc # "returned"
        /\ exit_code # 0
        /\ \A i \in DOMAIN output_file.rows : output_file.rows[i].count.cls = "finite"

\* x is the fraction a / b (b > 0), compared without forming a product
RatIs(x, a, b) ==
    /\ x.cls = "finite"
    /\ x.d > 0
    /\ b % x.d = 0
    /\ LET k == b \div x.d IN a % k = 0 /\ a \div k = x.n

\* C6: with total_reads > 0 every written row has
\* count = raw_count * 1e6 / total_reads, count >= 0 and the raw_count of
\* the same line of the counts file; raw_count 10 with 5,000,000 mapped
\* reads gives 2.0.
C6_RpmNormalization ==
    (output_file.exists /\ total_reads > 0) =>
        /\ (counts_tmp.exists => Len(output_file.rows) = Len(counts_tmp.rows))
        /\ \A i \in DOMAIN output_file.rows :
              LET r == output_file.rows[i] IN
              /\ RatIs(r.count, r.raw_count * 1000000, total_reads)
              /\ r.count.n >= 0
              /\ (counts_tmp.exists => r.raw_count = counts_tmp.rows[i].raw_count)
              /\ ((r.raw_count = 10 /\ total_reads = 5000000) =>
                     r.count = [cls |-> "finite", n |-> 2, d |-> 1])

C6_Witness ==
    /\ pc = "qc"
    /\ total_reads = 5000000
    /\ \E i \in DOMAIN output_file.rows :
          /\ output_file.rows[i].raw_count = 10
          /\ output_file.rows[i].count = [cls |-> "finite", n |-> 2, d |-> 1]
          /\ counts_tmp.rows[i].raw_count = 10

(***************************************************************************)
(* Properties of the classification script                                 *)
(***************************************************************************)
SetsComputed ==
    \/ fpc \in {"save_unfiltered", "filter", "save_filtered", "stats", "done"}
    \/ (fpc = "failed" /\ DOMAIN written # {})

Filtered == fpc \in {"save_filtered", "stats", "done"}

\* C5: when the script has been aborted by an input error (a missing input
\* file or a missing DEA column), no output file has been written.
C5_InputErrorBeforeOutput ==
    (fpc = "failed") => (DOMAIN written = {})

\* C7: all_targets is exactly the set of genes of target list 2; a gene that
\* is only in target list 1 is not a target and stays in all_no_targets,
\* all_no_targets_mm10 and high_expression_no_targets when it is in the
\* DEA genes, the annotation genes and the high-expression genes.
C7_TargetsAreList2 ==
    SetsComputed =>
        /\ all_targets = Range(targets2.rows)
        /\ \A g \in Range(targets1.rows) \ Range(targets2.rows) :
              /\ g \notin all_targets
              /\ (g \in all_genes => g \in all_no_targets)
              /\ (g \in all_mm10_genes => g \in all_no_targets_mm10)
              /\ ((Filtered /\ g \in high_expression_genes) =>
                     g \in high_expression_no_targets)

C7_Witness ==
    /\ fpc = "done"
    /\ \E g \in Range(targets1.rows) \ Range(targets2.rows) :
          /\ g \in all_no_targets
          /\ g \in all_no_targets_mm10
          /\ g \in high_expression_no_targets

\* C8: all_no_targets and all_no_targets_mm10 share no gene with all_targets.
C8_NoTargetsDisjoint ==
    SetsComputed =>
        /\ all_no_targets \cap all_targets = {}
        /\ all_no_targets_mm10 \cap all_targets = {}

C8_Witness ==
    /\ SetsComputed
    /\ all_genes \cap all_targets # {}
    /\ all_mm10_genes \cap all_targets # {}
    /\ all_no_targets # {}
    /\ all_no_targets_mm10 # {}

\* C9: for runs on the same DEA table with thresholds t1 < t2, the
\* high-expression set of t2 is a subset of the one of t1.
C9_ThresholdMonotone ==
    \A t1 \in DOMAIN he_runs, t2 \in DOMAIN he_runs :
        (t1 < t2) => (he_runs[t2] \subseteq he_runs[t1])

C9_Witness ==
    \E t1 \in DOMAIN he_runs, t2 \in DOMAIN he_runs :
        /\ t1 < t2
        /\ he_runs[t2] # {}
        /\ he_runs[t2] # he_runs[t1]

\* out is the subsequence of in made of the entries that are in S
IsFilteredSubseq(out, in, S) ==
    LET idx == { i \in DOMAIN in : in[i] \in S } IN
    /\ Len(out) = Cardinality(idx)
    /\ \A i \in idx : out[Cardinality({ j \in idx : j <= i })] = in[i]
    /\ Range(out) \subseteq Range(in)

\* C10: filtered_targets1 and filtered_targets2 are the subsequences of
\* target list 1 and target list 2 made of the entries that are in
\* high_expression_genes, in the original order and with their duplicates.
C10_FilteredSubsequence ==
    Filtered =>
        /\ IsFilteredSubseq(filtered_targets1, targets1.rows, high_expression_genes)
        /\ IsFilteredSubseq(filtered_targets2, targets2.rows, high_expression_genes)

C10_Witness ==
    /\ fpc = "done"
    /\ targets1.rows = <<"B", "B">>
    /\ filtered_targets1 = <<"B", "B">>
    /\ targets2.rows = <<"X", "A">>
    /\ filtered_targets2 = <<"A">>

\* C11: a gene is in high_expression_genes exactly when one of its DEA
\* records has baseMean strictly greater than the threshold; a record at the
\* threshold does not count, a target-list gene without DEA record is never
\* high-expression, and the worked example gives {B,C}, [B] and {A,C}.
C11_StrictThreshold ==
    Filtered =>
        /\ \A g \in high_expression_genes :
              \E i \in DOMAIN dea.rows :
                  dea.rows[i].gene = g /\ dea.rows[i].baseMean > threshold
        /\ \A i \in DOMAIN dea.rows :
              IF dea.rows[i].baseMean > threshold
              THEN dea.rows[i].gene \in high_expression_genes
              ELSE (\A j \in DOMAIN dea.rows :
                        dea.rows[j].gene = dea.rows[i].gene => dea.rows[j].baseMean <= threshold)
                   => dea.rows[i].gene \notin high_expression_genes
        /\ \A g \in (Range(targets1.rows) \cup Range(targets2.rows)) \ all_genes :
              /\ g \notin high_expression_genes
              /\ g \notin Range(filtered_targets1)
              /\ g \notin Range(filtered_targets2)
        /\ (dea.rows = ScenarioDea /\ threshold = 100 /\ targets2.rows = <<"B", "X">>) =>
              /\ high_expression_genes = {"B", "C"}
              /\ all_targets = {"B", "X"}
              /\ filtered_targets2 = <<"B">>
              /\ all_no_targets = {"A", "C"}

C11_Witness ==
    /\ fpc = "done"
    /\ dea.rows = ScenarioDea
    /\ threshold = 100
    /\ targets2.rows = <<"B", "X">>
    /\ high_expression_genes = {"B", "C"}
    /\ filtered_targets2 = <<"B">>
    /\ all_no_targets = {"A", "C"}

(***************************************************************************)
(* Properties of the quality-control step of count_reads                   *)
(***************************************************************************)
\* the quality-control step (lines 65-71) has been executed
QcRan == pc \in {"finally", "returned", "exit"} /\ exc = "none" /\ output_file.exists

ZeroRows == { i \in DOMAIN df.rows : df.rows[i].raw_count = 0 }
NonZeroRows == { i \in DOMAIN df.rows : df.rows[i].raw_count # 0 }

\* C12: after the quality-control step the zero-coverage warning has been
\* emitted exactly when the intervals with raw_count = 0 are more than half
\* of the intervals; with exactly half of them it has not been emitted.
C12_ZeroCoverageWarning ==
    QcRan =>
        /\ ("zero_peaks" \in warnings) <=> (Cardinality(ZeroRows) > Cardinality(NonZeroRows))
        /\ (Cardinality(ZeroRows) = Cardinality(NonZeroRows)) => ("zero_peaks" \notin warnings)

C12_Witness ==
    /\ QcRan
    /\ Cardinality(ZeroRows) = 1
    /\ Cardinality(NonZeroRows) = 1
    /\ "zero_peaks" \notin warnings

\* C13: after the quality-control step the low-depth warning has been
\* emitted exactly when total_reads is below 1,000,000; with exactly
\* 1,000,000 mapped reads it has not been emitted.
C13_LowDepthWarning ==
    QcRan =>
        /\ ("low_reads" \in warnings) <=> (total_reads <= 999999)
        /\ (total_reads = 1000000) => ("low_reads" \notin warnings)

C13_Witness ==
    /\ QcRan
    /\ total_reads = 1000000
    /\ "low_reads" \notin warnings

\* C14: a run in which the four subprocess calls returned status 0 and
\* total_reads > 0 never carries an exception, and when it has ended the
\* normalized table is written and the exit status is 0, whatever warnings
\* were emitted; a warning never leaves an exception behind.
C14_WarningsAreNotFatal ==
    /\ (warnings # {}) => (exc = "none" /\ output_file.exists)
    /\ (StepsSucceeded /\ total_reads > 0) =>
          /\ exc = "none"
          /\ pc \in {"read_csv", "normalize", "to_csv", "qc", "finally", "returned", "exit"}
          /\ (pc \in {"qc", "finally", "returned", "exit"}) =>
                (output_file.exists /\ Len(output_file.rows) = Len(df.rows))
          /\ (pc = "exit") => (exit_code = 0)

C14_Witness ==
    /\ pc = "exit"
    /\ exit_code = 0
    /\ StepsSucceeded
    /\ total_reads > 0
    /\ warnings = {"zero_peaks", "low_reads"}
    /\ output_file.exists

(***************************************************************************)
(* Properties of get_all_genes_from_gtf                                    *)
(***************************************************************************)
\* value of the last well-formed segment of a line with the given key
LastValue(attrs, key) ==
    LET idx == { i \in DOMAIN attrs : attrs[i].kind = "pair" /\ attrs[i].key = key }
    IN  IF idx = {} THEN ""
        ELSE attrs[CHOOSE i \in idx : \A j \in idx : j <= i].value

NamedCodingGenes(lines) ==
    { LastValue(lines[i].attrs, "gene_name") :
        i \in { j \in DOMAIN lines :
                  /\ ~lines[j].comment
                  /\ lines[j].feature = "gene"
                  /\ LastValue(lines[j].attrs, "gene_type") = "protein_coding"
                  /\ LastValue(lines[j].attrs, "gene_name") # "" } }

ScenarioGtf ==
    << FeatureLine("gene", "protein_coding", "A"), FeatureLine("gene", "protein_coding", "B"),
       FeatureLine("gene", "protein_coding", "C"), FeatureLine("gene", "lincRNA", "D") >>

\* C15: get_all_genes_from_gtf returns exactly the non-empty gene_name values
\* of the non-comment `gene` lines whose gene_type is protein_coding; a
\* segment without separator never aborts the parse, and the annotation with
\* protein_coding genes A, B, C and lincRNA gene D gives {A,B,C}.
C15_GtfGeneUniverse ==
    /\ (fpc = "failed") => ~gtf_file.exists
    /\ (fpc = "gtf_loop") =>
          genes = NamedCodingGenes(SubSeq(gtf_file.rows, 1, gtf_line - 1))
    /\ (fpc = "gtf_done") =>
          /\ all_mm10_genes = NamedCodingGenes(gtf_file.rows)
          /\ (gtf_file.rows = ScenarioGtf) => (all_mm10_genes = {"A", "B", "C"})

C15_Witness ==
    /\ fpc = "gtf_done"
    /\ gtf_file.rows = ScenarioGtf
    /\ all_mm10_genes = {"A", "B", "C"}

(***************************************************************************)
(* Properties of concurrent invocations of count_reads                     *)
(***************************************************************************)
\* positions between os.makedirs(temp_dir) and the cleanup
UsingTempDir ==
    {"total_reads", "genome", "sort", "coverage", "read_csv", "normalize", "to_csv", "qc"}

\* C16: the temporary directory and files of an invocation are private to
\* it: while an invocation is between creating its temporary directory and
\* its cleanup the directory exists, and no invocation fails because of a
\* step of the other one.
C16_PrivateTempDir ==
    \A p \in Procs :
        /\ (ppc[p] \in UsingTempDir) => tmp_exists
        /\ pexc[p] = "none"

(***************************************************************************)
(* Properties of the classification script on empty inputs                 *)
(***************************************************************************)
InputsComplete ==
    /\ dea_file.exists
    /\ targets1_file.exists
    /\ targets2_file.exists
    /\ gtf_file.exists
    /\ {"gene", "baseMean"} \subseteq dea_file.columns

\* C17: the script fails only on a missing file or a missing DEA column,
\* never because a target list or the DEA table is empty; with an empty
\* input the run reaches its end and the outputs derived from it are empty
\* (an empty target list 2 gives empty all_targets and filtered_targets2 and
\* all_no_targets = all_genes).
C17_EmptyInputsAreValid ==
    /\ (fpc = "failed") => ~InputsComplete
    /\ (fpc \in {"stats", "done"}) =>
          /\ (targets1.rows = <<>>) =>
                /\ filtered_targets1 = <<>>
                /\ written["all_targets1.csv"] = <<>>
                /\ written["high_expression_targets1"] = <<>>
          /\ (targets2.rows = <<>>) =>
                /\ all_targets = {}
                /\ filtered_targets2 = <<>>
                /\ all_no_targets = all_genes
                /\ all_no_targets_mm10 = all_mm10_genes
                /\ written["all_targets2.csv"] = <<>>
                /\ written["all_targets_final.csv"] = {}
                /\ written["high_expression_targets2"] = <<>>
          /\ (dea.rows = <<>>) =>
                /\ all_genes = {}
                /\ all_no_targets = {}
                /\ high_expression_genes = {}
                /\ high_expression_no_targets = {}
                /\ filtered_targets1 = <<>>
                /\ filtered_targets2 = <<>>

C17_Witness ==
    /\ fpc = "done"
    /\ targets1.rows = <<>>
    /\ targets2.rows = <<>>
    /\ all_genes # {}
    /\ all_targets = {}
    /\ all_no_targets = all_genes
    /\ filtered_targets2 = <<>>

C17_WitnessEmptyDea ==
    /\ fpc = "done"
    /\ dea.rows = <<>>
    /\ targets2.rows # <<>>
    /\ high_expression_genes = {}

====
